---- MODULE Spec2Model ----
(***************************************************************************)
(* A model of the recommender state machine (baybe/strategies/             *)
(* recommender.py), the integration-point sampling of                      *)
(* qNegIntegratedPosteriorVariance (baybe/acquisition/acqfs.py), the       *)
(* ColumnTransformer (baybe/utils/scaling.py) and the                      *)
(* MeanPredictionSurrogate (baybe/surrogates/naive.py).                    *)
(*                                                                         *)
(* Each component has its own specification over the shared variables:     *)
(*   Spec        the recommenders acting on one search space               *)
(*   SpecHelper  select_candidates_and_recommend called directly           *)
(*   SpecAcq     get_integration_points                                    *)
(*   SpecCT      ColumnTransformer construction, fit and transform         *)
(*   SpecSur     MeanPredictionSurrogate fits and moment estimations       *)
(***************************************************************************)
EXTENDS Integers, Sequences, FiniteSets, TLC

\* ------------------------------------------------------------------ bounds

\* Number of rows of the discrete part of the search space.
NRows == 3

\* Largest batch_quantity a caller asks for.
MaxBatch == 2

\* Largest number of rows of a discrete part that integration points are
\* sampled from.
MaxD == 3

\* Largest sampling_n_points an acquisition function is constructed with.
MaxPoints == 2

\* Largest entry of a tensor (the entries are 0 .. MaxVal).
MaxVal == 2

\* Largest number of training points of a fit of the surrogate.
MaxTrain == 2

\* Largest number of candidates of a moment estimation.
MaxCand == 2

\* ------------------------------------------------------------------ state

VARIABLES
    \* --- the search space (an external collaborator, owned by the caller)
    sstype,            \* searchspace.type
    was_measured,      \* metadata column was_measured: the rows where it is true
    was_recommended,   \* metadata column was_recommended: the rows where it is true
    dont_recommend,    \* metadata column dont_recommend: the rows where it is true
    \* --- the last recommend call, as its caller and its collaborators saw it
    call,              \* the arguments of the call
    outcome,           \* "none" before any call, "ok", or the exception raised
    rec,               \* the index of the returned experimental rows
    trace,             \* what the call did: collaborators created and invoked
    pre_recommended,   \* was_recommended as it was when the call started
    norepeat_returned, \* rows returned by earlier successful calls that were made
                       \* with allow_repeated_recommendations = False
    \* --- qNegIntegratedPosteriorVariance
    acqf,              \* the acquisition function object (frozen once constructed)
    acqf_error,        \* what the last construction raised, "none" if nothing
    ip,                \* the last get_integration_points call on the object
    \* --- ColumnTransformer
    ct_new,            \* the last construction: its mapping and what it raised
    ct,                \* the instance it produced: its mapping, as a sequence of
                       \* (columns, transformer) in the order of the dict, or
                       \* NoInstance when the construction raised
    xf,                \* the last transform call on the instance
    \* --- MeanPredictionSurrogate
    model,             \* self._model: None, or the float stored by the last fit
    last_fit,          \* the arguments of the most recent _fit call
    replaced,          \* whether that fit replaced a model of another value
    moments            \* the last _estimate_moments call and what it returned

recVars == <<sstype, was_measured, was_recommended, dont_recommend, call, outcome,
             rec, trace, pre_recommended, norepeat_returned>>

acqVars == <<acqf, acqf_error, ip>>

ctVars == <<ct_new, ct, xf>>

surVars == <<model, last_fit, replaced, moments>>

vars == <<recVars, acqVars, ctVars, surVars>>

\* --------------------------------------------------------- the search space

SearchSpaceTypes == {"DISCRETE", "CONTINUOUS", "HYBRID"}

Rows == 1 .. NRows

\* The index of searchspace.discrete.exp_rep / comp_rep / metadata: a purely
\* continuous search space has an empty discrete part.
DiscRows == IF sstype = "CONTINUOUS" THEN {} ELSE Rows

\* searchspace.continuous.empty
ContEmpty == sstype = "DISCRETE"

\* searchspace.discrete.get_candidates(allow_repeated_recommendations,
\* allow_recommending_already_measured): the index of the rows left after the
\* exclusion by metadata.
get_candidates(allow_repeated, allow_measured) ==
    {r \in DiscRows :
        /\ r \notin dont_recommend
        /\ allow_repeated \/ r \notin was_recommended
        /\ allow_measured \/ r \notin was_measured}

\* ------------------------------------------- select_candidates_and_recommend

\* What the type-specific callback recommend(searchspace, candidates_comp,
\* batch_quantity) can do: raise, return batch_quantity labels of candidate rows,
\* or return labels of which one (NRows + 1) is no label of the table.
CallbackResults(cands, bq) ==
    {[kind |-> "raise", idxs |-> {}]}
    \cup {[kind |-> "return", idxs |-> S] :
            S \in {T \in SUBSET cands : Cardinality(T) = bq}}
    \cup {[kind |-> "return", idxs |-> S \cup {NRows + 1}] :
            S \in {T \in SUBSET cands : Cardinality(T) = bq - 1}}

\* The caller's flag handed on as it is.
EffectiveFlag_passed_through(flag, cont_empty) == flag

\* The flag handed to get_candidates: the caller's flag, or true when the
\* search space has a continuous component.
EffectiveFlag(flag, cont_empty) == flag \/ ~cont_empty

\* The check "if len(candidates_comp) < batch_quantity: raise".
NotEnoughPointsLeft_off_by_one(n_candidates, bq) == n_candidates + 1 < bq

NotEnoughPointsLeft(n_candidates, bq) == n_candidates < bq

\* The assignment made to the whole column instead of the selected rows.
MarkRecommended_whole_column(column, idxs) == DiscRows

\* searchspace.discrete.metadata.loc[idxs, "was_recommended"] = True
MarkRecommended_overwrite(column, idxs) == idxs

MarkRecommended_nothing(column, idxs) == column

MarkRecommended(column, idxs) == column \cup idxs

\* The trace of a call that did nothing: created, fitted and acqf say whether a
\* surrogate was constructed, whether it was fitted and whether the acquisition
\* function was built; invoked whether a selection callback or strategy was
\* called and strategy which one; writes counts the writes to the metadata
\* table and n the rows or points returned; flags are the two flags that
\* get_candidates was called with, <<>> if it was not called.
NoTrace ==
    [created |-> FALSE, fitted |-> FALSE, acqf |-> FALSE, invoked |-> FALSE,
     strategy |-> "none", writes |-> 0, n |-> 0, flags |-> <<>>]

\* The helper with the metadata update moved before the lookup of the rows in
\* exp_rep: the labels that exist are marked although the lookup then fails.
select_candidates_and_recommend_mark_first(cont_empty, cb, bq, allow_rep, allow_meas) ==
    LET flags == <<EffectiveFlag(allow_rep, cont_empty),
                   EffectiveFlag(allow_meas, cont_empty)>>
        candidates_comp == get_candidates(flags[1], flags[2])
    IN  IF NotEnoughPointsLeft(Cardinality(candidates_comp), bq)
        THEN [outcome |-> "NotEnoughPointsLeftError", rec |-> {},
              column |-> was_recommended, invoked |-> FALSE, writes |-> 0, flags |-> flags]
        ELSE IF cb.kind = "raise"
        THEN [outcome |-> "CallbackError", rec |-> {},
              column |-> was_recommended, invoked |-> TRUE, writes |-> 0, flags |-> flags]
        ELSE IF ~(cb.idxs \subseteq DiscRows)
        THEN [outcome |-> "KeyError", rec |-> {},
              column |-> MarkRecommended(was_recommended, cb.idxs \cap DiscRows),
              invoked |-> TRUE, writes |-> 1, flags |-> flags]
        ELSE [outcome |-> "ok", rec |-> cb.idxs,
              column |-> MarkRecommended(was_recommended, cb.idxs),
              invoked |-> TRUE, writes |-> 1, flags |-> flags]

\* The whole helper; cb is what the callback does if it is invoked. The result
\* gives the exception or "ok", the returned rows, the new was_recommended
\* column, whether the callback was invoked and the number of metadata writes.
select_candidates_and_recommend(cont_empty, cb, bq, allow_rep, allow_meas) ==
    LET flags == <<EffectiveFlag(allow_rep, cont_empty),
                   EffectiveFlag(allow_meas, cont_empty)>>
        candidates_comp == get_candidates(flags[1], flags[2])
    IN  IF NotEnoughPointsLeft(Cardinality(candidates_comp), bq)
        THEN [outcome |-> "NotEnoughPointsLeftError", rec |-> {},
              column |-> was_recommended, invoked |-> FALSE, writes |-> 0, flags |-> flags]
        ELSE IF cb.kind = "raise"
        THEN [outcome |-> "CallbackError", rec |-> {},
              column |-> was_recommended, invoked |-> TRUE, writes |-> 0, flags |-> flags]
        ELSE IF ~(cb.idxs \subseteq DiscRows)
        THEN [outcome |-> "KeyError", rec |-> {},
              column |-> was_recommended, invoked |-> TRUE, writes |-> 0, flags |-> flags]
        ELSE [outcome |-> "ok", rec |-> cb.idxs,
              column |-> MarkRecommended(was_recommended, cb.idxs),
              invoked |-> TRUE, writes |-> 1, flags |-> flags]

\* ----------------------------------------------------------- the recommenders

\* train_x.index of the Bayesian calls, and the values of train_y.index they are
\* made with: the same index, the same labels in another order, fewer labels.
TrainXIndex == <<0, 1>>

TrainYIndexes == {<<0, 1>>, <<1, 0>>, <<0>>}

\* train_x.index.equals(train_y.index)
IndexEquals_as_sets(ix, iy) == {ix[i] : i \in DOMAIN ix} = {iy[i] : i \in DOMAIN iy}

IndexEquals(ix, iy) == ix = iy

\* What the variant's continuous strategy can do: raise (as the base class does)
\* or return batch_quantity points.
StrategyResults == {"raise", "return"}

\* The dispatch of recommend on searchspace.type. The result names the strategy
\* that is called, "none" where recommend raises NotImplementedError itself.
Dispatch(type) ==
    CASE type = "DISCRETE" -> "discrete"
      [] type = "CONTINUOUS" -> "continuous"
      [] OTHER -> "none"

\* The part of recommend after the dispatch, shared by the two variants: t is
\* the trace of the call so far, strat what the continuous or hybrid strategy
\* does if it is called.
Dispatched(t, cb, strat, bq, allow_repeated, allow_measured) ==
    LET d == Dispatch(sstype)
    IN  CASE d = "discrete" ->
                LET r == select_candidates_and_recommend(
                            ContEmpty, cb, bq, allow_repeated, allow_measured)
                IN  [outcome |-> r.outcome, rec |-> r.rec, n |-> Cardinality(r.rec),
                     column |-> r.column,
                     trace |-> [t EXCEPT !.invoked = r.invoked,
                                         !.strategy = "discrete",
                                         !.writes = r.writes,
                                         !.flags = r.flags]]
          [] d \in {"continuous", "hybrid"} ->
                [outcome |-> IF strat = "raise" THEN "StrategyError" ELSE "ok",
                 rec |-> {}, n |-> IF strat = "raise" THEN 0 ELSE bq,
                 column |-> was_recommended,
                 trace |-> [t EXCEPT !.invoked = TRUE, !.strategy = d]]
          [] OTHER ->
                [outcome |-> "NotImplementedError", rec |-> {}, n |-> 0,
                 column |-> was_recommended, trace |-> t]

\* A call that failed before the dispatch.
Failed(exception, t) ==
    [outcome |-> exception, rec |-> {}, n |-> 0, column |-> was_recommended,
     trace |-> t]

\* BayesianRecommender._fit: the index check, then the lookup of the surrogate
\* class, its construction and its fit. The result is the exception or "ok",
\* with the trace of what was created.
BayesianFit(ix, iy, surrogate_known, fit_ok) ==
    IF ~IndexEquals(ix, iy)
    THEN [outcome |-> "ValueError", trace |-> NoTrace]
    ELSE IF ~surrogate_known
    THEN [outcome |-> "KeyError", trace |-> NoTrace]
    ELSE IF ~fit_ok
    THEN [outcome |-> "FitError", trace |-> [NoTrace EXCEPT !.created = TRUE]]
    ELSE [outcome |-> "ok",
          trace |-> [NoTrace EXCEPT !.created = TRUE, !.fitted = TRUE]]

\* BayesianRecommender.recommend. best_f = train_y.max() comes first and has no
\* effect on what follows in this model; env says what the collaborators do.
BayesianRecommend(ix, iy, env, cb, strat, bq, allow_repeated, allow_measured) ==
    LET f == BayesianFit(ix, iy, env.surrogate_known, env.fit_ok)
    IN  IF f.outcome # "ok" THEN Failed(f.outcome, f.trace)
        ELSE IF ~env.acqf_known THEN Failed("KeyError", f.trace)
        ELSE IF ~env.acqf_ok THEN Failed("AcqfError", f.trace)
        ELSE Dispatched([f.trace EXCEPT !.acqf = TRUE], cb, strat, bq,
                        allow_repeated, allow_measured)

\* NonPredictiveRecommender.recommend: train_x and train_y are not read.
NonPredictiveRecommend(cb, strat, bq, allow_repeated, allow_measured) ==
    Dispatched(NoTrace, cb, strat, bq, allow_repeated, allow_measured)

\* The state after a call with arguments c and result r.
Returned(c, r) ==
    /\ call' = c
    /\ outcome' = r.outcome
    /\ rec' = r.rec
    /\ trace' = [r.trace EXCEPT !.n = r.n]
    /\ was_recommended' = r.column
    /\ pre_recommended' = was_recommended
    /\ norepeat_returned' =
          IF outcome = "ok" /\ ~call.allow_repeated
          THEN norepeat_returned \cup rec ELSE norepeat_returned
    /\ UNCHANGED <<sstype, was_measured, dont_recommend>>
    /\ UNCHANGED <<acqVars, ctVars, surVars>>

\* ------------------------------------------------------------------ actions

\* What the callback and the strategies may do in a call on this search space.
Callbacks(bq, allow_repeated, allow_measured) ==
    IF Dispatch(sstype) = "discrete"
    THEN CallbackResults(
            get_candidates(EffectiveFlag(allow_repeated, ContEmpty),
                           EffectiveFlag(allow_measured, ContEmpty)), bq)
    ELSE {[kind |-> "raise", idxs |-> {}]}

Strategies == IF Dispatch(sstype) = "continuous" THEN StrategyResults ELSE {"raise"}

NoIndex == <<>>

RecommendNonPredictive ==
    \E bq \in 1 .. MaxBatch, ar \in BOOLEAN, am \in BOOLEAN :
    \E cb \in Callbacks(bq, ar, am), strat \in Strategies :
        Returned([variant |-> "NonPredictive", bq |-> bq, allow_repeated |-> ar,
                  allow_measured |-> am, train_x |-> NoIndex, train_y |-> NoIndex],
                 NonPredictiveRecommend(cb, strat, bq, ar, am))

\* The collaborators of a Bayesian call: whether the configured surrogate and
\* acquisition-function names are registered, and whether the surrogate's fit
\* and the acquisition function's construction succeed. A collaborator that
\* comes after a failing one is never reached, and is not varied.
Envs(ix, iy) ==
    {e \in [surrogate_known : BOOLEAN, fit_ok : BOOLEAN, acqf_known : BOOLEAN,
            acqf_ok : BOOLEAN] :
        /\ ~e.surrogate_known => e.fit_ok
        /\ ~e.fit_ok => e.acqf_known
        /\ ~e.acqf_known => e.acqf_ok}

\* Whether a call with these collaborators reaches the dispatch.
ReachesDispatch(ix, iy, e) ==
    ix = iy /\ e.surrogate_known /\ e.fit_ok /\ e.acqf_known /\ e.acqf_ok

RecommendBayesian ==
    \E bq \in 1 .. MaxBatch, ar \in BOOLEAN, am \in BOOLEAN, iy \in TrainYIndexes :
    \E env \in Envs(TrainXIndex, iy) :
    \E cb \in IF ReachesDispatch(TrainXIndex, iy, env)
               THEN Callbacks(bq, ar, am) ELSE {[kind |-> "raise", idxs |-> {}]},
       strat \in IF ReachesDispatch(TrainXIndex, iy, env)
                  THEN Strategies ELSE {"raise"} :
        Returned([variant |-> "Bayesian", bq |-> bq, allow_repeated |-> ar,
                  allow_measured |-> am, train_x |-> TrainXIndex, train_y |-> iy],
                 BayesianRecommend(TrainXIndex, iy, env, cb, strat, bq, ar, am))

\* select_candidates_and_recommend called on the search space directly, with a
\* callback of the caller's: the search space may have a continuous part.
SelectCandidatesAndRecommend ==
    \E bq \in 1 .. MaxBatch, ar \in BOOLEAN, am \in BOOLEAN :
    \E cb \in CallbackResults(
                get_candidates(EffectiveFlag(ar, ContEmpty),
                               EffectiveFlag(am, ContEmpty)), bq) :
        LET r == select_candidates_and_recommend(ContEmpty, cb, bq, ar, am)
        IN  Returned([variant |-> "helper", bq |-> bq, allow_repeated |-> ar,
                      allow_measured |-> am, train_x |-> NoIndex,
                      train_y |-> NoIndex],
                     [outcome |-> r.outcome, rec |-> r.rec,
                      n |-> Cardinality(r.rec), column |-> r.column,
                      trace |-> [NoTrace EXCEPT !.invoked = r.invoked,
                                                !.strategy = "helper",
                                                !.writes = r.writes,
                                                !.flags = r.flags]])

\* ------------------------------------------ qNegIntegratedPosteriorVariance

\* Python's None; a value v that may be None is written Some(v).
None == <<>>

Some(v) == <<v>>

\* The values of sampling_fraction tried, as <<numerator, denominator>>:
\* 0, 1/4, 1/3, 1/2, 2/3, 1 and 3/2. Products with them are exact (the model
\* has no floating-point rounding).
SamplingFractions ==
    {<<0, 1>>, <<1, 4>>, <<1, 3>>, <<1, 2>>, <<2, 3>>, <<1, 1>>, <<3, 2>>}

\* The validators of sampling_fraction: gt(0.0) and le(1.0).
ValidSamplingFraction(f) == f[1] > 0 /\ f[1] <= f[2]

\* The validator of sampling_n_points: optional([gt(0), instance_of(int)]).
ValidSamplingNPoints(n) == n = None \/ n[1] > 0

\* Python's "a or b" on values that are None or an integer: a unless a is
\* None or 0.
PyOr(a, b) == IF a # None /\ a[1] # 0 THEN a ELSE b

\* n_candidates = n_candidates or self.sampling_n_points: the number of points
\* asked of the continuous part, given the number found for the discrete part.
ContinuousCount_discrete_only(n_disc, sampling_n_points) == n_disc

ContinuousCount(n_disc, sampling_n_points) == PyOr(n_disc, sampling_n_points)

\* math.ceil(sampling_fraction * len(candidates_discrete))
Ceil_floor(f, len) == (f[1] * len) \div f[2]

Ceil(f, len) == (f[1] * len + f[2] - 1) \div f[2]

\* What sample_numerical_df(candidates_discrete, n, method) can do on a table
\* of d rows: return n rows, or raise when more rows are asked for than exist.
SamplerResults(d, n) == IF n > d THEN {"return", "raise"} ELSE {"return"}

\* The number of rows that sample_numerical_df(candidates_discrete, n, method)
\* and searchspace.continuous.samples_random(n) return: n. With both parts the
\* samples are concatenated side by side on the index of the discrete sample,
\* and the result has these n rows.
sample_numerical_df(n) == n

samples_random(n) == n

\* get_integration_points of the object self on a search space whose discrete
\* part is disc (None, or Some(d) for a table of d rows) and whose continuous
\* part is present iff cont; sampler is what sample_numerical_df does. The
\* result gives the exception ("none" if the call returns) with the names its
\* message holds, the number of rows asked of sample_numerical_df and of
\* samples_random (None where it is not called) and the rows of the result.
get_integration_points(self, disc, cont, sampler) ==
    LET n_disc ==
            IF disc # None
            THEN PyOr(self.sampling_n_points,
                      Some(Ceil(self.sampling_fraction, disc[1])))
            ELSE None
        n_cont == ContinuousCount(n_disc, self.sampling_n_points)
    IN  IF disc # None /\ sampler = "raise"
        THEN [exc |-> "SamplingError", names |-> {}, disc_requested |-> n_disc,
              cont_requested |-> None, rows |-> None]
        ELSE IF cont /\ n_cont = None
        THEN [exc |-> "ValueError",
              names |-> {"sampling_n_points", "qNegIntegratedPosteriorVariance"},
              disc_requested |-> n_disc, cont_requested |-> None, rows |-> None]
        ELSE IF cont
        THEN [exc |-> "none", names |-> {}, disc_requested |-> n_disc,
              cont_requested |-> n_cont, rows |-> Some(samples_random(n_cont[1]))]
        ELSE IF disc # None
        THEN [exc |-> "none", names |-> {}, disc_requested |-> n_disc,
              cont_requested |-> None, rows |-> Some(sample_numerical_df(n_disc[1]))]
        ELSE [exc |-> "ValueError", names |-> {}, disc_requested |-> None,
              cont_requested |-> None, rows |-> None]

\* What sample_numerical_df can do in a call of get_integration_points.
SamplerCalls(self, disc) ==
    LET n == IF disc = None THEN None
             ELSE PyOr(self.sampling_n_points,
                       Some(Ceil(self.sampling_fraction, disc[1])))
    IN  IF n = None THEN {"return"} ELSE SamplerResults(disc[1], n[1])

\* No call yet on the object.
NoIntegrationPoints ==
    [called |-> FALSE, disc |-> None, cont |-> FALSE, exc |-> "none", names |-> {},
     disc_requested |-> None, cont_requested |-> None, rows |-> None]

\* qNegIntegratedPosteriorVariance(sampling_fraction=f, sampling_n_points=n):
\* the validators run, and a new frozen object replaces the old one.
ConstructAcqf ==
    \E f \in SamplingFractions, n \in {None} \cup {Some(k) : k \in 0 .. MaxPoints} :
        /\ IF ValidSamplingFraction(f) /\ ValidSamplingNPoints(n)
           THEN /\ acqf' = [sampling_fraction |-> f, sampling_n_points |-> n]
                /\ acqf_error' = "none"
                /\ ip' = NoIntegrationPoints
           ELSE /\ acqf_error' = "ValueError"
                /\ UNCHANGED <<acqf, ip>>
        /\ UNCHANGED <<recVars, ctVars, surVars>>

GetIntegrationPoints ==
    \E disc \in {None} \cup {Some(d) : d \in 0 .. MaxD}, cont \in BOOLEAN :
    \E sampler \in SamplerCalls(acqf, disc) :
        LET r == get_integration_points(acqf, disc, cont, sampler)
        IN  /\ ip' = [called |-> TRUE, disc |-> disc, cont |-> cont, exc |-> r.exc,
                      names |-> r.names, disc_requested |-> r.disc_requested,
                      cont_requested |-> r.cont_requested, rows |-> r.rows]
            /\ UNCHANGED <<acqf, acqf_error>>
            /\ UNCHANGED <<recVars, ctVars, surVars>>

\* The object constructed with the defaults: sampling_fraction = 1.0 and
\* sampling_n_points = None.
InitAcq ==
    /\ acqf = [sampling_fraction |-> <<1, 1>>, sampling_n_points |-> None]
    /\ acqf_error = "none"
    /\ ip = NoIntegrationPoints


\* ---------------------------------------------------------- ColumnTransformer

\* The columns of the tensors, and the tensors: one row of entries.
Cols == {0, 1, 2}

Tensors == [Cols -> 0 .. MaxVal]

\* The column tuples that the keys of a mapping are taken from.
KeyTuples == {<<>>, <<0>>, <<2>>, <<0, 1>>, <<1, 0>>, <<1, 2>>}

\* Mappings of three keys: every order of (0), (0, 1), (1, 2), of which two
\* pairs overlap, and two orders of the disjoint (0), (1), (2).
ThreeKeys ==
    { << <<0>>, <<0, 1>>, <<1, 2>> >>, << <<0>>, <<1, 2>>, <<0, 1>> >>,
      << <<0, 1>>, <<0>>, <<1, 2>> >>, << <<0, 1>>, <<1, 2>>, <<0>> >>,
      << <<1, 2>>, <<0>>, <<0, 1>> >>, << <<1, 2>>, <<0, 1>>, <<0>> >>,
      << <<0>>, <<1>>, <<2>> >>, << <<2>>, <<0>>, <<1>> >> }

\* The keys of the mappings a ColumnTransformer is constructed with, in the
\* order of the dict: up to two distinct keys of KeyTuples, or three keys.
Mappings ==
    {<<>>} \cup {<<k>> : k \in KeyTuples}
    \cup {<<p[1], p[2]>> : p \in {q \in KeyTuples \X KeyTuples : q[1] # q[2]}}
    \cup ThreeKeys

\* set(x)
Range(x) == {x[i] : i \in DOMAIN x}

\* set(x).isdisjoint(y)
IsDisjoint_first_column(x, y) == x = <<>> \/ y = <<>> \/ x[1] # y[1]

IsDisjoint(x, y) == Range(x) \cap Range(y) = {}

\* _validate_mapping_types_lazily: the deep_mapping validator raises a
\* TypeError unless every key is a tuple of ints and every value an
\* InputTransform.
validate_mapping_types_lazily(types_ok) ==
    IF types_ok THEN [exc |-> "none", names |-> <<>>]
    ELSE [exc |-> "TypeError", names |-> <<>>]

\* _validate_mapping_is_disjoint: the first pair of itertools.combinations(
\* keys, 2) that is not disjoint raises a ValueError naming the two keys.
validate_mapping_is_disjoint(keys) ==
    LET bad == {p \in (DOMAIN keys) \X (DOMAIN keys) :
                    p[1] < p[2] /\ ~IsDisjoint(keys[p[1]], keys[p[2]])}
    IN  IF bad = {} THEN [exc |-> "none", names |-> <<>>]
        ELSE LET p == CHOOSE q \in bad :
                        \A o \in bad :
                            q[1] < o[1] \/ (q[1] = o[1] /\ q[2] <= o[2])
             IN  [exc |-> "ValueError", names |-> <<keys[p[1]], keys[p[2]]>>]

\* The two validators of the field mapping, in the order of their definition.
validate_mapping(keys, types_ok) ==
    LET t == validate_mapping_types_lazily(types_ok)
    IN  IF t.exc # "none" THEN t ELSE validate_mapping_is_disjoint(keys)

\* A transformer (an InputTransform): its mode and the statistic it has learnt,
\* 0 before it has seen data. Its value on the columns v shifts every entry by
\* an amount that depends on the statistic and on the first entry of v, and is
\* never 0.
NewTransformer == [mode |-> "train", stat |-> 0]

Evaluate(stat, v) ==
    LET first == IF v = <<>> THEN 0 ELSE v[1]
        shift == 1 + ((stat + first) % MaxVal)
    IN  [i \in DOMAIN v |-> (v[i] + shift) % (MaxVal + 1)]

\* transformer(v): in training mode the statistic is learnt from v first.
CallTransformer(t, v) ==
    LET learnt == IF t.mode = "train" /\ v # <<>>
                  THEN [t EXCEPT !.stat = 1 + (v[1] % 2)] ELSE t
    IN  [transformer |-> learnt, out |-> Evaluate(learnt.stat, v)]

\* x[..., cols]
Slice(x, cols) == [i \in DOMAIN cols |-> x[cols[i]]]

\* x[..., cols] = v
Assign(x, cols, v) ==
    [c \in Cols |->
        IF c \in Range(cols) THEN v[CHOOSE i \in DOMAIN cols : cols[i] = c]
        ELSE x[c]]

\* x.clone(): the buffer that out refers to, given the buffer that x refers to.
clone_alias(buffer) == buffer

clone(buffer) == "out"

\* The loop of transform from entry k of the mapping m on: heap gives the
\* contents of the buffers, out names the buffer that is written.
RECURSIVE TransformLoop(_, _, _, _)
TransformLoop(m, k, heap, out) ==
    IF k > Len(m) THEN [mapping |-> m, heap |-> heap]
    ELSE LET cols == m[k].cols
             r == CallTransformer([m[k].transformer EXCEPT !.mode = "eval"],
                                  Slice(heap[out], cols))
         IN  TransformLoop(
                [m EXCEPT ![k].transformer = r.transformer], k + 1,
                [heap EXCEPT ![out] = Assign(heap[out], cols, r.out)], out)

\* transform(x): the mapping after the call, the returned tensor and the
\* caller's tensor after the call.
transform(m, x) ==
    LET out == clone("x")
        r == TransformLoop(m, 1, [b \in {"x", out} |-> x], out)
    IN  [mapping |-> r.mapping, out |-> r.heap[out], x_after |-> r.heap["x"]]

\* The loop of fit from entry k of the mapping m on.
RECURSIVE FitLoop(_, _, _)
FitLoop(m, k, x) ==
    IF k > Len(m) THEN m
    ELSE LET r == CallTransformer([m[k].transformer EXCEPT !.mode = "train"],
                                  Slice(x, m[k].cols))
         IN  FitLoop([m EXCEPT ![k].transformer = r.transformer], k + 1, x)

NoInstance == <<[cols |-> <<>>, transformer |-> [mode |-> "none", stat |-> 0]]>>

NoTransform == [called |-> FALSE, before |-> <<>>, x |-> <<>>, x_after |-> <<>>,
                out |-> <<>>]

\* ColumnTransformer(mapping): the validators run; the instance exists only if
\* neither raises.
ConstructColumnTransformer ==
    \E keys \in Mappings, types_ok \in BOOLEAN :
        LET r == validate_mapping(keys, types_ok)
        IN  /\ ct_new' = [made |-> TRUE, keys |-> keys, types_ok |-> types_ok,
                          exc |-> r.exc, names |-> r.names]
            /\ ct' = IF r.exc = "none"
                     THEN [i \in DOMAIN keys |->
                            [cols |-> keys[i], transformer |-> NewTransformer]]
                     ELSE NoInstance
            /\ xf' = NoTransform
            /\ UNCHANGED <<recVars, acqVars, surVars>>

\* fit(x)
FitColumnTransformer ==
    /\ ct # NoInstance
    /\ \E x \in Tensors :
        /\ ct' = FitLoop(ct, 1, x)
        /\ xf' = NoTransform
        /\ UNCHANGED ct_new
        /\ UNCHANGED <<recVars, acqVars, surVars>>

\* transform(x)
TransformColumnTransformer ==
    /\ ct # NoInstance
    /\ \E x \in Tensors :
        LET r == transform(ct, x)
        IN  /\ ct' = r.mapping
            /\ xf' = [called |-> TRUE, before |-> ct, x |-> x,
                      x_after |-> r.x_after, out |-> r.out]
            /\ UNCHANGED ct_new
            /\ UNCHANGED <<recVars, acqVars, surVars>>

\* ColumnTransformer({})
InitCT ==
    /\ ct_new = [made |-> FALSE, keys |-> <<>>, types_ok |-> TRUE, exc |-> "none",
                 names |-> <<>>]
    /\ ct = <<>>
    /\ xf = NoTransform

\* ------------------------------------------------- MeanPredictionSurrogate

\* Training targets and the feature values of training points and candidates.
Targets == 0 .. MaxVal

Features == {0, 1}

\* The tensors of n rows with entries in S; a row is one entry.
Column(S, n) == [1 .. n -> S]

RECURSIVE SumOf(_)
SumOf(y) == IF y = <<>> THEN 0 ELSE y[1] + SumOf(Tail(y))

\* A float, kept exact as a fraction in lowest terms; NaN is a value of its own.
NaN == [num |-> 0, den |-> 0]

Fraction(a, b) ==
    LET g == CHOOSE d \in 1 .. b :
                /\ a % d = 0 /\ b % d = 0
                /\ \A e \in 1 .. b : (a % e = 0 /\ b % e = 0) => e <= d
    IN  [num |-> a \div g, den |-> b \div g]

\* train_y.mean().item(): the mean of an empty tensor is nan.
Mean(train_y) ==
    IF Len(train_y) = 0 THEN NaN ELSE Fraction(SumOf(train_y), Len(train_y))

\* A fit that keeps the model of an earlier fit.
fit_keep_first(self_model, train_x, train_y) ==
    IF self_model = None THEN Some(Mean(train_y)) ELSE self_model

\* _fit: self._model = train_y.mean().item()
fit(self_model, train_x, train_y) == Some(Mean(train_y))

\* _estimate_moments on one candidate set: self._model * torch.ones([n]) and
\* torch.ones(n), n = len(candidates); None * Tensor raises TypeError.
estimate_moments(self_model, candidates) ==
    IF self_model = None
    THEN [exc |-> "TypeError", mean |-> <<>>, var |-> <<>>]
    ELSE [exc |-> "none",
          mean |-> [i \in 1 .. Len(candidates) |-> self_model[1]],
          var |-> [i \in 1 .. Len(candidates) |-> 1]]

NoFit == [called |-> FALSE, train_x |-> <<>>, train_y |-> <<>>]

NoMoments ==
    [called |-> FALSE, candidates |-> <<>>, exc |-> "none", mean |-> <<>>,
     var |-> <<>>]

\* A call of _fit, with as many training points as targets.
Fit ==
    \E n \in 0 .. MaxTrain :
    \E train_x \in Column(Features, n), train_y \in Column(Targets, n) :
        /\ model' = fit(model, train_x, train_y)
        /\ last_fit' = [called |-> TRUE, train_x |-> train_x, train_y |-> train_y]
        /\ replaced' = (model # None /\ model' # model)
        /\ moments' = NoMoments
        /\ UNCHANGED <<recVars, acqVars, ctVars>>

\* A call of _estimate_moments.
EstimateMoments ==
    \E n \in 0 .. MaxCand :
    \E candidates \in Column(Features, n) :
        LET r == estimate_moments(model, candidates)
        IN  /\ moments' = [called |-> TRUE, candidates |-> candidates,
                           exc |-> r.exc, mean |-> r.mean, var |-> r.var]
            /\ UNCHANGED <<model, last_fit, replaced>>
            /\ UNCHANGED <<recVars, acqVars, ctVars>>

InitSur ==
    /\ model = None
    /\ last_fit = NoFit
    /\ replaced = FALSE
    /\ moments = NoMoments

\* ------------------------------------------------------------ specification

\* The metadata a search space starts with: nothing measured and nothing
\* excluded, or the first row measured and the last row excluded.
InitialMetadata ==
    {[was_measured |-> {}, dont_recommend |-> {}],
     [was_measured |-> {1}, dont_recommend |-> {NRows}]}

InitRec ==
    /\ sstype \in SearchSpaceTypes
    /\ \E m \in InitialMetadata :
          /\ was_measured = m.was_measured \cap DiscRows
          /\ dont_recommend = m.dont_recommend \cap DiscRows
    /\ was_recommended = {}
    /\ call = [variant |-> "none", bq |-> 1, allow_repeated |-> FALSE,
               allow_measured |-> TRUE, train_x |-> NoIndex, train_y |-> NoIndex]
    /\ outcome = "none"
    /\ rec = {}
    /\ trace = NoTrace
    /\ pre_recommended = {}
    /\ norepeat_returned = {}

\* The recommenders on one search space.
Init == InitRec /\ InitAcq /\ InitCT /\ InitSur

Next == RecommendNonPredictive \/ RecommendBayesian

Spec == Init /\ [][Next]_vars

\* The discrete selection helper called directly, on search spaces of every
\* type.
NextHelper == SelectCandidatesAndRecommend

SpecHelper == Init /\ [][NextHelper]_vars

\* The acquisition function on search spaces of every shape; the recommenders'
\* search space is an untouched discrete one.
InitSpecAcq ==
    /\ InitRec /\ sstype = "DISCRETE" /\ was_measured = {}
    /\ InitAcq /\ InitCT /\ InitSur

NextAcq == ConstructAcqf \/ GetIntegrationPoints

SpecAcq == InitSpecAcq /\ [][NextAcq]_vars

\* The ColumnTransformer; the recommenders' search space and the acquisition
\* function are untouched.
NextCT ==
    \/ ConstructColumnTransformer
    \/ FitColumnTransformer
    \/ TransformColumnTransformer

SpecCT == InitSpecAcq /\ [][NextCT]_vars

\* The surrogate on its own: fits and moment estimations in any order.
NextSur == Fit \/ EstimateMoments

SpecSur == InitSpecAcq /\ [][NextSur]_vars

\* ------------------------------------------------- claims on the recommenders

\* The last call went through the shared discrete selection helper.
DiscreteCall == call.variant # "none" /\ trace.strategy = "discrete"

\* The filtered candidates the last call started with, on a discrete search
\* space: the rows not excluded by dont_recommend, nor by the two flags.
CandidatesBefore ==
    {r \in DiscRows :
        /\ r \notin dont_recommend
        /\ call.allow_repeated \/ r \notin pre_recommended
        /\ call.allow_measured \/ r \notin was_measured}

C2_InsufficientCandidatesFail ==
    (DiscreteCall /\ call.bq > Cardinality(CandidatesBefore))
        => /\ outcome = "NotEnoughPointsLeftError"
           /\ ~trace.invoked
           /\ trace.writes = 0
           /\ was_recommended = pre_recommended
           /\ rec = {}

\* A discrete call that asks for one row more than the candidates that earlier
\* recommendations have left.
C2_Witness ==
    /\ DiscreteCall /\ outcome = "NotEnoughPointsLeftError"
    /\ call.bq = Cardinality(CandidatesBefore) + 1
    /\ pre_recommended # {}

\* C3: on a purely discrete search space, a call made with
\* allow_repeated_recommendations = False returns no row that an earlier such
\* call returned, and fails when fewer than batch_quantity candidates that were
\* never recommended remain.
C3_NoRepeatedRecommendation ==
    (sstype = "DISCRETE" /\ call.variant # "none" /\ ~call.allow_repeated)
        => /\ rec \cap norepeat_returned = {}
           /\ norepeat_returned \subseteq pre_recommended
           /\ (DiscreteCall
                /\ Cardinality({r \in CandidatesBefore : r \notin pre_recommended})
                     < call.bq)
                => outcome = "NotEnoughPointsLeftError" /\ rec = {}

\* A second successful call without repetition, after a first one returned rows.
C3_Witness ==
    /\ sstype = "DISCRETE" /\ ~call.allow_repeated /\ outcome = "ok"
    /\ rec # {} /\ norepeat_returned # {}

\* C4: a recommend call writes the metadata table at most once, and only after
\* the selection callback has returned and the selected labels were found in
\* exp_rep; a successful discrete call writes it exactly once; a call that
\* fails at any step leaves was_recommended as it was.
C4_MetadataWrittenOnceAfterSelection ==
    call.variant # "none"
        => /\ trace.writes \in {0, 1}
           /\ trace.writes = 1 <=> (DiscreteCall /\ outcome = "ok")
           /\ trace.writes = 1 => trace.invoked
           /\ outcome # "ok" => was_recommended = pre_recommended
           /\ trace.writes = 0 => was_recommended = pre_recommended

\* The callback returned, the lookup of its labels in exp_rep failed, on a table
\* with rows recommended before.
C4_Witness ==
    /\ DiscreteCall /\ outcome = "KeyError" /\ trace.invoked
    /\ call.variant = "Bayesian" /\ pre_recommended # {}

\* C5: a Bayesian recommend call whose train_x and train_y indexes differ fails
\* with ValueError on every search-space type, with no surrogate created or
\* fitted, no acquisition function built, no strategy invoked and no change of
\* the metadata.
C5_IndexMismatchFailsFirst ==
    (call.variant = "Bayesian" /\ call.train_x # call.train_y)
        => /\ outcome = "ValueError"
           /\ ~trace.created /\ ~trace.fitted /\ ~trace.acqf /\ ~trace.invoked
           /\ trace.strategy = "none"
           /\ trace.writes = 0
           /\ was_recommended = pre_recommended

\* A Bayesian call with the same labels in another order, on a discrete search
\* space with rows recommended before.
C5_Witness ==
    /\ call.variant = "Bayesian" /\ call.train_x = <<0, 1>> /\ call.train_y = <<1, 0>>
    /\ outcome = "ValueError" /\ sstype = "DISCRETE" /\ pre_recommended # {}

\* The last call reached the dispatch on the search-space type.
ReachedDispatch ==
    \/ call.variant = "NonPredictive"
    \/ call.variant = "Bayesian" /\ trace.acqf

\* C6: recommend of both variants dispatches DISCRETE to the discrete selection
\* helper, CONTINUOUS to the continuous strategy and HYBRID to the hybrid
\* strategy, and raises NotImplementedError itself only for a type that is none
\* of the three.
C6_DispatchOnType ==
    ReachedDispatch
        => /\ sstype = "DISCRETE" => trace.strategy = "discrete"
           /\ sstype = "CONTINUOUS" => trace.strategy = "continuous"
           /\ sstype = "HYBRID" => trace.strategy = "hybrid"
           /\ outcome = "NotImplementedError" => sstype \notin SearchSpaceTypes

\* ---------------------------------------- claims on get_integration_points

\* The least integer that is at least sampling_fraction * d.
LeastIntegerAtLeast(f, d) ==
    CHOOSE c \in 0 .. d :
        /\ c * f[2] >= f[1] * d
        /\ \A c2 \in 0 .. d : c2 * f[2] >= f[1] * d => c <= c2

\* C7: on a search space with no discrete part and a continuous part, the call
\* fails with a ValueError naming the class, sampling nothing, if
\* sampling_n_points is None; with sampling_n_points = k it asks samples_random
\* for exactly k points and returns k rows.
C7_PurelyContinuous ==
    (ip.called /\ ip.disc = None /\ ip.cont)
        => IF acqf.sampling_n_points = None
           THEN /\ ip.exc = "ValueError"
                /\ "qNegIntegratedPosteriorVariance" \in ip.names
                /\ ip.disc_requested = None /\ ip.cont_requested = None
                /\ ip.rows = None
           ELSE /\ ip.exc = "none"
                /\ ip.disc_requested = None
                /\ ip.cont_requested = acqf.sampling_n_points
                /\ ip.rows = acqf.sampling_n_points

\* A purely continuous call on an object constructed with sampling_n_points.
C7_Witness ==
    /\ ip.called /\ ip.disc = None /\ ip.cont
    /\ acqf.sampling_n_points = Some(MaxPoints) /\ ip.rows = Some(MaxPoints)

\* The number of discrete rows C8 gives: sampling_n_points when it is given,
\* ceil(sampling_fraction * D) otherwise.
DiscreteRowsClaimed ==
    IF acqf.sampling_n_points # None THEN acqf.sampling_n_points
    ELSE Some(LeastIntegerAtLeast(acqf.sampling_fraction, ip.disc[1]))

Overlapping(keys) ==
    \E i \in DOMAIN keys, j \in DOMAIN keys :
        i # j /\ \E c \in Cols : c \in Range(keys[i]) /\ c \in Range(keys[j])

\* C9: the construction succeeds for every mapping with pairwise disjoint keys
\* and valid values; when two distinct keys share a column it fails, for valid
\* values with a ValueError that names two keys of the mapping that share a
\* column; no instance has overlapping keys.
C9_DisjointOrRejected ==
    /\ ct # NoInstance => ~Overlapping([i \in DOMAIN ct |-> ct[i].cols])
    /\ ct_new.made =>
        /\ (ct_new.types_ok /\ ~Overlapping(ct_new.keys))
                => /\ ct_new.exc = "none"
                   /\ ct # NoInstance
                   /\ [i \in DOMAIN ct |-> ct[i].cols] = ct_new.keys
        /\ Overlapping(ct_new.keys) => ct_new.exc # "none" /\ ct = NoInstance
        /\ (ct_new.types_ok /\ Overlapping(ct_new.keys))
                => /\ ct_new.exc = "ValueError"
                   /\ \E i \in DOMAIN ct_new.keys, j \in DOMAIN ct_new.keys :
                        /\ i < j
                        /\ ct_new.names = <<ct_new.keys[i], ct_new.keys[j]>>
                        /\ Range(ct_new.keys[i]) \cap Range(ct_new.keys[j]) # {}

\* The construction with the keys (0, 1) and (1, 2), which share column 1.
C9_Witness ==
    /\ ct_new.made /\ ct_new.keys = << <<0, 1>>, <<1, 2>> >> /\ ct_new.types_ok
    /\ ct_new.exc = "ValueError" /\ ct = NoInstance

\* C10: transform leaves its input tensor as it was; in the returned tensor a
\* column of no group equals the input column, and a column of a group equals
\* the value, at that column's place, of the group's transformer (as it was
\* before the call, evaluated without learning) on the input's columns of the
\* group, whatever the order of the groups in the mapping.
C10_TransformColumnwise ==
    xf.called =>
        /\ xf.x_after = xf.x
        /\ \A c \in Cols :
            /\ (\A k \in DOMAIN xf.before : c \notin Range(xf.before[k].cols))
                    => xf.out[c] = xf.x[c]
            /\ \A k \in DOMAIN xf.before :
               \A i \in DOMAIN xf.before[k].cols :
                    xf.before[k].cols[i] = c
                        => xf.out[c] =
                             Evaluate(xf.before[k].transformer.stat,
                                      Slice(xf.x, xf.before[k].cols))[i]
        /\ \A k \in DOMAIN ct : ct[k].transformer.mode = "eval"
        /\ \A k \in DOMAIN ct :
                ct[k].transformer.stat = xf.before[k].transformer.stat

\* A transform by a fitted instance with the groups (1, 0) and (2), after which
\* every column differs from the input's.
C10_Witness ==
    /\ xf.called
    /\ [k \in DOMAIN xf.before |-> xf.before[k].cols] = << <<2>>, <<1, 0>> >>
    /\ \A k \in DOMAIN xf.before : xf.before[k].transformer.mode = "train"
    /\ \A k \in DOMAIN xf.before : xf.before[k].transformer.stat # 0
    /\ \A c \in Cols : xf.out[c] # xf.x[c]

\* ------------------------------------------- claims on the effective flags

\* C12: the helper fetches the candidates with both flags true whenever the
\* search space has a continuous component, whatever the caller's flags, and
\* with the caller's two flags when it has none.
C12_FlagsIgnoredWithContinuousPart ==
    (call.variant = "helper")
        => /\ sstype \in {"CONTINUOUS", "HYBRID"} => trace.flags = <<TRUE, TRUE>>
           /\ sstype = "DISCRETE"
                => trace.flags = <<call.allow_repeated, call.allow_measured>>
           /\ outcome = "ok"
                => rec \subseteq
                    {r \in DiscRows :
                        /\ r \notin dont_recommend
                        /\ sstype = "DISCRETE"
                            => /\ call.allow_repeated \/ r \notin pre_recommended
                               /\ call.allow_measured \/ r \notin was_measured}

\* On a hybrid search space a call made with both flags false returns a row
\* that was recommended before and is measured.
C12_Witness ==
    /\ call.variant = "helper" /\ sstype = "HYBRID" /\ outcome = "ok"
    /\ ~call.allow_repeated /\ ~call.allow_measured
    /\ rec \cap pre_recommended \cap was_measured # {}

\* ------------------------------------------------ claims on the metadata

\* C13: no recommend call, successful or failing, changes a row's
\* was_recommended from true to false or changes was_recommended of a row it
\* did not select, and none changes was_measured, dont_recommend or the set of
\* metadata rows: the set of rows with was_recommended = true only grows.
C13_RecommendedOnlyGrows ==
    [][/\ was_recommended \subseteq was_recommended'
       /\ \A r \in DiscRows \ rec' :
            (r \in was_recommended') = (r \in was_recommended)
       /\ was_measured' = was_measured
       /\ dont_recommend' = dont_recommend
       /\ DiscRows' = DiscRows]_vars

\* A successful call that selects a row recommended before and a row never
\* recommended, and leaves out another row recommended before.
C13_Witness ==
    /\ DiscreteCall /\ outcome = "ok" /\ call.allow_repeated
    /\ rec \cap pre_recommended # {}
    /\ rec \ pre_recommended # {}
    /\ pre_recommended \ rec # {}

\* ------------------------------------------------ claims on the surrogate

\* C11: after one or more fits, a moment estimation returns for every
\* candidate the arithmetic mean of the targets of the most recent fit and the
\* variance 1, one entry of each per candidate, whatever the candidates'
\* features, train_x and the fits made before (targets of the most recent fit
\* non-empty: an empty tensor has no arithmetic mean).
C11_MeanOfLastFit ==
    (moments.called /\ last_fit.called /\ Len(last_fit.train_y) > 0)
        => /\ moments.exc = "none"
           /\ Len(moments.mean) = Len(moments.candidates)
           /\ Len(moments.var) = Len(moments.candidates)
           /\ \A i \in 1 .. Len(moments.candidates) :
                /\ moments.mean[i].den > 0
                /\ moments.mean[i].num * Len(last_fit.train_y)
                     = SumOf(last_fit.train_y) * moments.mean[i].den
                /\ moments.var[i] = 1

\* An estimation for two candidates of different features, after a fit on two
\* points of different features that replaced a model of another value, with a
\* mean that is not one of the targets.
C11_Witness ==
    /\ moments.called /\ last_fit.called /\ replaced
    /\ moments.candidates = <<0, 1>>
    /\ last_fit.train_x = <<1, 0>>
    /\ last_fit.train_y = <<1, 2>>
    /\ moments.mean = <<[num |-> 3, den |-> 2], [num |-> 3, den |-> 2]>>

====
